---------------------------- MODULE Spec2Model ----------------------------
(***************************************************************************)
(* Model of the terminal text editor in src/src/main.rs: the row buffer    *)
(* (EditorRows / Row), the tab renderer (render_row, get_render_x,         *)
(* get_row_content_x), the cursor and viewport (CursorController), the     *)
(* editing commands of Output, and the incremental search (find_callback  *)
(* driven by the prompt! loop).                                            *)
(*                                                                         *)
(* Strings are sequences of one-character strings.  Every character of    *)
(* the modelled alphabet is one byte, so byte offsets (String::len, slice *)
(* bounds) and character offsets coincide.  All indices are 0-based as in *)
(* the source; a sequence element i of the source is element i + 1 here.  *)
(*                                                                         *)
(* A Rust panic (slice or index out of range, integer underflow) ends the *)
(* process: it is recorded in the variable fault and no further step is   *)
(* taken.                                                                  *)
(***************************************************************************)
EXTENDS Integers, Sequences, FiniteSets, TLC

VARIABLES
    editor_rows,        \* EditorRows.row_contents: sequence of Row records
    cursor_controller,  \* Output.cursor_controller (CursorController)
    search_index,       \* Output.search_index (SearchIndex)
    dirty,              \* Output.dirty
    mode,               \* "edit": Editor::process_keypress, "find": prompt! loop of Output::find,
                        \* "saveas": prompt! loop of the Ctrl+S arm
    input,              \* the prompt's input string (the search keyword)
    saved_cursor,       \* the copy of cursor_controller taken by Output::find
    pc,                 \* "refresh": about to run refresh_screen, "key": about to read a key
    fault,              \* "none", or the panic or error that ended the process
    probe,              \* argument and result of one call of a pure function,
                        \* or the state in which the last key was read (KeySpec)
    file                \* EditorRows.filename and the file it names on disk

vars ==
    <<editor_rows, cursor_controller, search_index, dirty, mode, input,
      saved_cursor, pc, fault, probe, file>>

---------------------------------------------------------------------------
(* Program constants and bounds *)

TAB_STOP == 8

TAB == "\t"

SPACE == " "

MaxLen == 2

MaxRows == 2

\* Most lines of a file that search sessions alone are run on
MaxSearchRows == 3

MaxDirty == 2

MaxQuery == 2

MaxScreen == 2

MaxFileLen == 2

MaxProbeLen == 3

MaxOffset == 9
\* Successful saves explored in one run
MaxSaves == 1
\* Keys explored in one run of the key-sequence specification
MaxKeys == 3
\* Length of the file contents tried in the load-and-save round trip
MaxRoundTripLen == 4

BufferChars == {"a", TAB}

QueryChars == {"a", SPACE}

ProbeChars == {"a", "b", TAB}

FileChars == {"a", "\n"}

\* Carriage return, and the zero byte a file is padded with when it grows
CR == "\r"
NUL == "NUL"

\* Characters of the file contents that loading alone is applied to
LoadChars == FileChars \cup {CR}

NoMatch == -1

\* No "bytes written" message has been shown
NoBytes == -1

\* The path given as the program's argument
ArgName == <<"f">>

NameChars == {"f"}

\* Letters pressed together with Ctrl
ControlChars == {"f", "g"}

---------------------------------------------------------------------------
(* Generic helpers standing for the Rust standard library *)

Min(a, b) == IF a < b THEN a ELSE b

\* usize::saturating_sub
saturating_sub(a, b) == IF a > b THEN a - b ELSE 0

\* s[from..to] with 0-based, end-exclusive bounds
Slice(s, from, to) == SubSeq(s, from + 1, to)

\* All sequences over S of length at most n
SeqsUpTo(S, n) == UNION {[1..m -> S] : m \in 0..n}

\* needle occurs in hay at 0-based offset p
OccursAt(hay, needle, p) ==
    /\ p + Len(needle) <= Len(hay)
    /\ \A j \in 1..Len(needle) : hay[p + j] = needle[j]

\* str::find: offset of the first occurrence, or NoMatch for None
str_find(hay, needle) ==
    LET hits == {p \in 0..Len(hay) : OccursAt(hay, needle, p)}
    IN  IF hits = {} THEN NoMatch
        ELSE CHOOSE p \in hits : \A q \in hits : p <= q

\* A backward search that stops at the occurrence nearest the start
str_rfind_mut(hay, needle) == str_find(hay, needle)

\* str::rfind: offset of the last occurrence, or NoMatch for None
str_rfind(hay, needle) ==
    LET hits == {p \in 0..Len(hay) : OccursAt(hay, needle, p)}
    IN  IF hits = {} THEN NoMatch
        ELSE CHOOSE p \in hits : \A q \in hits : p >= q

\* Vec::insert(at, x), at in 0..=len
vec_insert(v, at, x) == SubSeq(v, 1, at) \o <<x>> \o SubSeq(v, at + 1, Len(v))

\* Vec::remove(at), at in 0..len
vec_remove(v, at) == SubSeq(v, 1, at) \o SubSeq(v, at + 2, Len(v))

---------------------------------------------------------------------------
(* Tab renderer *)

RECURSIVE pad_to_stop(_, _)
\* The inner while loop of render_row: push spaces until index is a tab stop
pad_to_stop(render, index) ==
    IF index % TAB_STOP # 0
    THEN pad_to_stop(Append(render, SPACE), index + 1)
    ELSE [render |-> render, index |-> index]

RECURSIVE render_loop(_, _, _, _)
\* The for_each of render_row over the characters i + 1 .. of content
render_loop(content, i, render, index) ==
    IF i >= Len(content) THEN render
    ELSE LET c == content[i + 1]
             index1 == index + 1
         IN  IF c = TAB
             THEN LET p == pad_to_stop(Append(render, SPACE), index1)
                  IN  render_loop(content, i + 1, p.render, p.index)
             ELSE render_loop(content, i + 1, Append(render, c), index1)

\* A plausible slip: every tab is rendered as a single space
render_row_mut(row) ==
    [row EXCEPT !.render =
        [i \in 1..Len(row.row_content) |->
            IF row.row_content[i] = TAB THEN SPACE ELSE row.row_content[i]]]

\* EditorRows::render_row: rebuilds row.render from row.row_content
render_row(row) ==
    [row EXCEPT !.render = render_loop(row.row_content, 0, <<>>, 0)]

\* Row::new
Row_new(row_content, render) == [row_content |-> row_content, render |-> render]

RECURSIVE fold_render_x(_, _, _)
\* The fold of get_render_x over prefix[i + 1 ..] with accumulator render_x
fold_render_x(prefix, i, render_x) ==
    IF i >= Len(prefix) THEN render_x
    ELSE IF prefix[i + 1] = TAB
         THEN fold_render_x(prefix, i + 1,
                            render_x + (TAB_STOP - 1) - (render_x % TAB_STOP) + 1)
         ELSE fold_render_x(prefix, i + 1, render_x + 1)

\* A plausible slip: the tab always counts TAB_STOP cells
get_render_x_mut(cursor_x, row) ==
    LET prefix == Slice(row.row_content, 0, cursor_x)
    IN  Len(prefix)
        + (TAB_STOP - 1) * Cardinality({i \in 1..Len(prefix) : prefix[i] = TAB})

\* CursorController::get_render_x; the caller guarantees cursor_x <= len
get_render_x(cursor_x, row) ==
    fold_render_x(Slice(row.row_content, 0, cursor_x), 0, 0)

\* row_content[..cursor_x] panics when cursor_x is past the end
get_render_x_panics(cursor_x, row) == cursor_x > Len(row.row_content)

RECURSIVE content_x_loop(_, _, _, _)
\* The for loop of get_row_content_x from character cursor_x on
content_x_loop(content, cursor_x, current_render_x, render_x) ==
    IF cursor_x >= Len(content) THEN 0
    ELSE LET tabbed == IF content[cursor_x + 1] = TAB
                       THEN current_render_x + (TAB_STOP - 1)
                                - (current_render_x % TAB_STOP)
                       ELSE current_render_x
             next == tabbed + 1
         IN  IF next > render_x THEN cursor_x
             ELSE content_x_loop(content, cursor_x + 1, next, render_x)

\* Row::get_row_content_x
get_row_content_x(row, render_x) ==
    content_x_loop(row.row_content, 0, 0, render_x)

---------------------------------------------------------------------------
(* EditorRows and Row *)

\* EditorRows::number_of_rows
number_of_rows(rows) == Len(rows)

\* EditorRows::get_row: the content of row at
get_row(rows, at) == rows[at + 1].row_content

\* EditorRows::get_editor_row
get_editor_row(rows, at) == rows[at + 1]

\* Row::insert_char: String::insert then render_row
Row_insert_char_mut(row, at, ch) ==
    render_row([row EXCEPT !.row_content = Append(row.row_content, ch)])

\* Row::insert_char: String::insert then render_row
Row_insert_char(row, at, ch) ==
    render_row([row EXCEPT !.row_content = vec_insert(row.row_content, at, ch)])

\* Row::delete_char: String::remove then render_row
Row_delete_char(row, at) ==
    render_row([row EXCEPT !.row_content = vec_remove(row.row_content, at)])

\* EditorRows::insert_row
insert_row(rows, at, contents) ==
    vec_insert(rows, at, render_row(Row_new(contents, <<>>)))

\* A plausible slip: the joined row keeps its old render
join_adjacent_rows_mut(rows, at) ==
    LET current_row == rows[at + 1]
        removed == vec_remove(rows, at)
    IN  [removed EXCEPT ![at] =
            [@ EXCEPT !.row_content = @ \o current_row.row_content]]

\* EditorRows::join_adjacent_rows, at >= 1
join_adjacent_rows(rows, at) ==
    LET current_row == rows[at + 1]
        removed == vec_remove(rows, at)
    IN  [removed EXCEPT ![at] =
            render_row([@ EXCEPT !.row_content = @ \o current_row.row_content])]

\* str::lines: a line that ended at "\n" loses the "\r" just before it
strip_cr(line) ==
    IF line # <<>> /\ line[Len(line)] = CR
    THEN SubSeq(line, 1, Len(line) - 1)
    ELSE line

RECURSIVE split_newline(_, _, _)
\* Pieces of s between "\n" or "\r\n" line endings, from character i + 1 on;
\* cur is the piece being collected.  The piece after the last line ending is
\* kept as it is, a final "\r" included
split_newline(s, i, cur) ==
    IF i >= Len(s) THEN <<cur>>
    ELSE IF s[i + 1] = "\n"
         THEN <<strip_cr(cur)>> \o split_newline(s, i + 1, <<>>)
         ELSE split_newline(s, i + 1, Append(cur, s[i + 1]))

\* str::lines: split at "\n" and "\r\n"; a final empty piece is not a line
str_lines(s) ==
    LET pieces == split_newline(s, 0, <<>>)
    IN  IF pieces[Len(pieces)] = <<>>
        THEN SubSeq(pieces, 1, Len(pieces) - 1)
        ELSE pieces

\* EditorRows::from_file applied to the contents read from the file
from_file(file_contents) ==
    LET ls == str_lines(file_contents)
    IN  [i \in 1..Len(ls) |-> render_row(Row_new(ls[i], <<>>))]

---------------------------------------------------------------------------
(* CursorController *)

\* CursorController::new
CursorController_new(win_size) ==
    [cursor_x |-> 0, cursor_y |-> 0,
     screen_columns |-> win_size[1], screen_rows |-> win_size[2],
     row_offset |-> 0, column_offset |-> 0, render_x |-> 0]

\* The match on direction in CursorController::move_cursor
move_cursor_step(cc, direction, rows) ==
    LET n == number_of_rows(rows)
    IN  CASE direction = "Up" ->
                [cc EXCEPT !.cursor_y = saturating_sub(cc.cursor_y, 1)]
          [] direction = "Left" ->
                IF cc.cursor_x # 0
                THEN [cc EXCEPT !.cursor_x = cc.cursor_x - 1]
                ELSE IF cc.cursor_y > 0
                     THEN [cc EXCEPT !.cursor_y = cc.cursor_y - 1,
                                     !.cursor_x = Len(get_row(rows, cc.cursor_y - 1))]
                     ELSE cc
          [] direction = "Down" ->
                IF cc.cursor_y < n
                THEN [cc EXCEPT !.cursor_y = cc.cursor_y + 1]
                ELSE cc
          [] direction = "Right" ->
                IF cc.cursor_y < n
                THEN IF cc.cursor_x < Len(get_row(rows, cc.cursor_y))
                     THEN [cc EXCEPT !.cursor_x = cc.cursor_x + 1]
                     ELSE [cc EXCEPT !.cursor_x = 0, !.cursor_y = cc.cursor_y + 1]
                ELSE cc
          [] direction = "Home" -> [cc EXCEPT !.cursor_x = 0]
          [] direction = "End" ->
                IF cc.cursor_y < n
                THEN [cc EXCEPT !.cursor_x = Len(get_row(rows, cc.cursor_y))]
                ELSE cc

\* A plausible slip: the clamp of cursor_x is forgotten
move_cursor_mut(cc, direction, rows) ==
    move_cursor_step(cc, direction, rows)

\* CursorController::move_cursor: the step, then the clamp of cursor_x
move_cursor(cc, direction, rows) ==
    LET moved == move_cursor_step(cc, direction, rows)
        row_len == IF moved.cursor_y < number_of_rows(rows)
                   THEN Len(get_row(rows, moved.cursor_y))
                   ELSE 0
    IN  [moved EXCEPT !.cursor_x = Min(moved.cursor_x, row_len)]

\* A scroll that brings a cursor below or right of the window to the near edge
\* of the window instead of the far one
scroll_near(cc, rows) ==
    LET render_x == IF cc.cursor_y < number_of_rows(rows)
                    THEN get_render_x(cc.cursor_x, get_editor_row(rows, cc.cursor_y))
                    ELSE 0
        ro1 == Min(cc.row_offset, cc.cursor_y)
        ro2 == IF cc.cursor_y >= ro1 + cc.screen_rows
               THEN cc.cursor_y
               ELSE ro1
        co1 == Min(cc.column_offset, render_x)
        co2 == IF render_x >= co1 + cc.screen_columns
               THEN render_x
               ELSE co1
    IN  [cc EXCEPT !.render_x = render_x, !.row_offset = ro2,
                   !.column_offset = co2]

\* A plausible slip: the "+ 1" of both window adjustments is forgotten
scroll_mut(cc, rows) ==
    LET render_x == IF cc.cursor_y < number_of_rows(rows)
                    THEN get_render_x(cc.cursor_x, get_editor_row(rows, cc.cursor_y))
                    ELSE 0
        ro1 == Min(cc.row_offset, cc.cursor_y)
        ro2 == IF cc.cursor_y >= ro1 + cc.screen_rows
               THEN cc.cursor_y - cc.screen_rows
               ELSE ro1
        co1 == Min(cc.column_offset, render_x)
        co2 == IF render_x >= co1 + cc.screen_columns
               THEN render_x - cc.screen_columns
               ELSE co1
    IN  [cc EXCEPT !.render_x = render_x, !.row_offset = ro2,
                   !.column_offset = co2]

\* CursorController::scroll
scroll(cc, rows) ==
    LET render_x == IF cc.cursor_y < number_of_rows(rows)
                    THEN get_render_x(cc.cursor_x, get_editor_row(rows, cc.cursor_y))
                    ELSE 0
        ro1 == Min(cc.row_offset, cc.cursor_y)
        ro2 == IF cc.cursor_y >= ro1 + cc.screen_rows
               THEN cc.cursor_y - cc.screen_rows + 1
               ELSE ro1
        co1 == Min(cc.column_offset, render_x)
        co2 == IF render_x >= co1 + cc.screen_columns
               THEN render_x - cc.screen_columns + 1
               ELSE co1
    IN  [cc EXCEPT !.render_x = render_x, !.row_offset = ro2,
                   !.column_offset = co2]

\* scroll panics when get_render_x slices past the end of the cursor's row
scroll_panics(cc, rows) ==
    /\ cc.cursor_y < number_of_rows(rows)
    /\ get_render_x_panics(cc.cursor_x, get_editor_row(rows, cc.cursor_y))

\* Output::refresh_screen: the cursor's screen position, (column, row)
screen_cursor(cc) ==
    <<cc.render_x - cc.column_offset, cc.cursor_y - cc.row_offset>>

---------------------------------------------------------------------------
(* Output: editing commands.  Each returns the new rows, cursor controller *)
(* and dirty counter, and the panic raised ("none" when it returns).       *)

Outcome(rows, cc, d, f) == [rows |-> rows, cc |-> cc, dirty |-> d, fault |-> f]

\* Output::insert_char
insert_char(rows, cc, d, ch) ==
    LET at_end == cc.cursor_y = number_of_rows(rows)
        rows1 == IF at_end
                 THEN insert_row(rows, number_of_rows(rows), <<>>)
                 ELSE rows
        d1 == IF at_end THEN d + 1 ELSE d
    IN  IF cc.cursor_y >= number_of_rows(rows1)
        THEN Outcome(rows1, cc, d1, "index out of bounds")
        ELSE IF cc.cursor_x > Len(get_row(rows1, cc.cursor_y))
        THEN Outcome(rows1, cc, d1, "String::insert out of bounds")
        ELSE Outcome(
                [rows1 EXCEPT ![cc.cursor_y + 1] =
                    Row_insert_char(@, cc.cursor_x, ch)],
                [cc EXCEPT !.cursor_x = cc.cursor_x + 1],
                d1 + 1, "none")

\* Output::insert_newline
insert_newline(rows, cc, d) ==
    IF cc.cursor_x = 0
    THEN IF cc.cursor_y > number_of_rows(rows)
         THEN Outcome(rows, cc, d, "Vec::insert out of bounds")
         ELSE Outcome(insert_row(rows, cc.cursor_y, <<>>),
                      [cc EXCEPT !.cursor_x = 0, !.cursor_y = cc.cursor_y + 1],
                      d + 1, "none")
    ELSE IF cc.cursor_y >= number_of_rows(rows)
         THEN Outcome(rows, cc, d, "index out of bounds")
         ELSE IF cc.cursor_x > Len(get_row(rows, cc.cursor_y))
         THEN Outcome(rows, cc, d, "slice index out of range")
         ELSE LET current_row == get_editor_row(rows, cc.cursor_y)
                  new_row_content ==
                      Slice(current_row.row_content, cc.cursor_x,
                            Len(current_row.row_content))
                  truncated ==
                      render_row([current_row EXCEPT !.row_content =
                          Slice(current_row.row_content, 0, cc.cursor_x)])
                  rows1 == [rows EXCEPT ![cc.cursor_y + 1] = truncated]
              IN  Outcome(insert_row(rows1, cc.cursor_y + 1, new_row_content),
                          [cc EXCEPT !.cursor_x = 0, !.cursor_y = cc.cursor_y + 1],
                          d + 1, "none")

\* Output::delete_char
delete_char(rows, cc, d) ==
    IF cc.cursor_y = number_of_rows(rows)
    THEN Outcome(rows, cc, d, "none")
    ELSE IF cc.cursor_y > number_of_rows(rows)
    THEN Outcome(rows, cc, d, "index out of bounds")
    ELSE IF cc.cursor_x > 0
    THEN IF cc.cursor_x - 1 >= Len(get_row(rows, cc.cursor_y))
         THEN Outcome(rows, cc, d, "String::remove out of bounds")
         ELSE Outcome(
                [rows EXCEPT ![cc.cursor_y + 1] =
                    Row_delete_char(@, cc.cursor_x - 1)],
                [cc EXCEPT !.cursor_x = cc.cursor_x - 1],
                d + 1, "none")
    ELSE IF cc.cursor_y = 0
         THEN \* cursor_y - 1 underflows (debug build), or wraps to an index
              \* far past the end of the rows (release build): a panic either way
              Outcome(rows, cc, d, "cursor_y - 1 out of range")
         ELSE Outcome(
                join_adjacent_rows(rows, cc.cursor_y),
                [cc EXCEPT !.cursor_x = Len(get_row(rows, cc.cursor_y - 1)),
                           !.cursor_y = cc.cursor_y - 1],
                d + 1, "none")

---------------------------------------------------------------------------
(* Incremental search *)

\* SearchIndex::new and SearchIndex::reset
SearchIndex_new ==
    [x_index |-> 0, y_index |-> 0, x_direction |-> "None", y_direction |-> "None"]

FindResult(cc, si, f) == [cc |-> cc, si |-> si, fault |-> f]

\* A plausible slip: without a direction the last occurrence is taken
find_in_row_mut(row, si, keyword) ==
    CASE si.x_direction = "None" -> str_rfind(row.render, keyword)
      [] si.x_direction = "Forward" ->
            LET start == Min(Len(row.render), si.x_index + 1)
                found == str_find(Slice(row.render, start, Len(row.render)), keyword)
            IN  IF found = NoMatch THEN NoMatch ELSE found + start
      [] si.x_direction = "Backward" ->
            str_rfind(Slice(row.render, 0, si.x_index), keyword)

\* The in-row search of find_callback: the index of the match in row.render,
\* or NoMatch.  The backward slice render[..x_index] needs x_index <= len.
find_in_row(row, si, keyword) ==
    CASE si.x_direction = "None" -> str_find(row.render, keyword)
      [] si.x_direction = "Forward" ->
            LET start == Min(Len(row.render), si.x_index + 1)
                found == str_find(Slice(row.render, start, Len(row.render)), keyword)
            IN  IF found = NoMatch THEN NoMatch ELSE found + start
      [] si.x_direction = "Backward" ->
            str_rfind(Slice(row.render, 0, si.x_index), keyword)

RECURSIVE find_loop_near(_, _, _, _, _)
\* A plausible slip: a scan with a row direction also gives up at the first row
\* that does not hold the query, as a scan with a column direction does
find_loop_near(rows, cc, si, keyword, i) ==
    IF i >= number_of_rows(rows) THEN FindResult(cc, si, "none")
    ELSE
    LET si1 == IF si.y_direction = "None" /\ si.x_direction = "None"
               THEN [si EXCEPT !.y_index = i]
               ELSE si
        res == saturating_sub(si1.y_index, i)
        row_index == CASE si1.y_direction = "None" -> si1.y_index
                       [] si1.y_direction = "Forward" -> si1.y_index + i + 1
                       [] si1.y_direction = "Backward" -> res - 1
    IN  IF si1.y_direction = "Backward" /\ res = 0
        THEN FindResult(cc, si1, "none")
        ELSE IF row_index > number_of_rows(rows) - 1
        THEN FindResult(cc, si1, "none")
        ELSE
        LET row == get_editor_row(rows, row_index)
        IN  IF si1.x_direction = "Backward" /\ si1.x_index > Len(row.render)
            THEN FindResult(cc, si1, "slice index out of range")
            ELSE
            LET index == find_in_row(row, si1, keyword)
            IN  IF (si1.x_direction # "None" \/ si1.y_direction # "None")
                   /\ index = NoMatch
                THEN FindResult(cc, si1, "none")
                ELSE IF index # NoMatch
                THEN FindResult(
                        [cc EXCEPT !.cursor_y = row_index,
                                   !.cursor_x = get_row_content_x(row, index),
                                   !.row_offset = number_of_rows(rows)],
                        [si1 EXCEPT !.y_index = row_index, !.x_index = index],
                        "none")
                ELSE find_loop_near(rows, cc, si1, keyword, i + 1)

RECURSIVE find_loop(_, _, _, _, _)
\* The loop "for i in 0..number_of_rows" of find_callback, from iteration i
find_loop(rows, cc, si, keyword, i) ==
    IF i >= number_of_rows(rows) THEN FindResult(cc, si, "none")
    ELSE
    LET si1 == IF si.y_direction = "None" /\ si.x_direction = "None"
               THEN [si EXCEPT !.y_index = i]
               ELSE si
        res == saturating_sub(si1.y_index, i)
        row_index == CASE si1.y_direction = "None" -> si1.y_index
                       [] si1.y_direction = "Forward" -> si1.y_index + i + 1
                       [] si1.y_direction = "Backward" -> res - 1
    IN  IF si1.y_direction = "Backward" /\ res = 0
        THEN FindResult(cc, si1, "none")
        ELSE IF row_index > number_of_rows(rows) - 1
        THEN FindResult(cc, si1, "none")
        ELSE
        LET row == get_editor_row(rows, row_index)
        IN  IF si1.x_direction = "Backward" /\ si1.x_index > Len(row.render)
            THEN FindResult(cc, si1, "slice index out of range")
            ELSE
            LET index == find_in_row(row, si1, keyword)
            IN  IF si1.x_direction # "None" /\ index = NoMatch
                THEN FindResult(cc, si1, "none")
                ELSE IF index # NoMatch
                THEN FindResult(
                        [cc EXCEPT !.cursor_y = row_index,
                                   !.cursor_x = get_row_content_x(row, index),
                                   !.row_offset = number_of_rows(rows)],
                        [si1 EXCEPT !.y_index = row_index, !.x_index = index],
                        "none")
                ELSE find_loop(rows, cc, si1, keyword, i + 1)

\* Output::find_callback
find_callback(rows, cc, si, keyword, key_code) ==
    IF key_code \in {"Esc", "Enter"}
    THEN FindResult(cc, SearchIndex_new, "none")
    ELSE LET si0 == [si EXCEPT
                        !.y_direction = CASE key_code = "Down" -> "Forward"
                                          [] key_code = "Up" -> "Backward"
                                          [] OTHER -> "None",
                        !.x_direction = CASE key_code = "Left" -> "Backward"
                                          [] key_code = "Right" -> "Forward"
                                          [] OTHER -> "None"]
         IN  find_loop(rows, cc, si0, keyword, 0)

---------------------------------------------------------------------------
(* The editor as a state machine: Editor::run alternates refresh_screen and *)
(* process_keypress; the prompt! loop of Output::find alternates            *)
(* refresh_screen and one prompt keystroke.                                 *)

\* A paint that starts the slice at column_offset even when nothing is painted
draw_row_slice_mut(render, column_offset, screen_columns) ==
    LET len == IF Len(render) < column_offset THEN 0
               ELSE Min(Len(render) - column_offset, screen_columns)
    IN  [start |-> column_offset, len |-> len]

\* Output::draw_rows, for a buffer row: start and length of the slice of the
\* rendered text that is painted
draw_row_slice(render, column_offset, screen_columns) ==
    LET len == IF Len(render) < column_offset THEN 0
               ELSE LET rest == Len(render) - column_offset
                    IN  IF rest > screen_columns THEN screen_columns ELSE rest
        start == IF len = 0 THEN 0 ELSE column_offset
    IN  [start |-> start, len |-> len]

\* row[start..start + len] panics when an end of the range is past the text
draw_row_panics(render, column_offset, screen_columns) ==
    LET s == draw_row_slice(render, column_offset, screen_columns)
    IN  s.start > Len(render) \/ s.start + s.len > Len(render)

\* Output::draw_rows, for a buffer row: the characters painted
draw_row(render, column_offset, screen_columns) ==
    LET s == draw_row_slice(render, column_offset, screen_columns)
    IN  Slice(render, s.start, s.start + s.len)

NoProbe == [fn |-> "none", content |-> <<>>, k |-> 0, out_str |-> <<>>, out_num |-> 0]

\* saved_cursor outside a search session: the local copy does not exist
NoSaved == CursorController_new(<<0, 0>>)

\* Output::new, with EditorRows::new given no argument (file = "none") or the
\* argument's file contents
OutputNew(win_size, rows, f) ==
    /\ editor_rows = rows
    /\ cursor_controller = CursorController_new(win_size)
    /\ search_index = SearchIndex_new
    /\ dirty = 0
    /\ mode = "edit"
    /\ input = <<>>
    /\ saved_cursor = NoSaved
    /\ pc = "refresh"
    /\ fault = f

\* EditorRows.filename is None and no file is involved
NoFile == [has_name |-> FALSE, name |-> <<>>, exists |-> FALSE, disk |-> <<>>,
           written |-> NoBytes, saves |-> 0]

\* EditorRows.filename is the program's argument; the file holds contents
ArgFile(contents) ==
    [has_name |-> TRUE, name |-> ArgName, exists |-> TRUE, disk |-> contents,
     written |-> NoBytes, saves |-> 0]

\* The program's argument names a file that cannot be read
UnreadableFile ==
    [has_name |-> TRUE, name |-> ArgName, exists |-> FALSE, disk |-> <<>>,
     written |-> NoBytes, saves |-> 0]

\* main: Editor::new, with no argument, with a readable file, or with a file
\* that fs::read_to_string cannot read (from_file's expect panics)
Init ==
    /\ \E w \in 1..MaxScreen, h \in 1..MaxScreen :
          \/ /\ OutputNew(<<w, h>>, <<>>, "none")
             /\ file = NoFile
          \/ \E contents \in SeqsUpTo(FileChars, MaxFileLen) :
                /\ OutputNew(<<w, h>>, from_file(contents), "none")
                /\ file = ArgFile(contents)
          \/ /\ OutputNew(<<w, h>>, <<>>, "Unable to read file")
             /\ file = UnreadableFile
    /\ probe = NoProbe

Panic(f) ==
    /\ fault' = f
    /\ UNCHANGED <<editor_rows, cursor_controller, search_index, dirty, mode,
                   input, saved_cursor, pc, probe, file>>

\* Output::refresh_screen: scroll, then paint and place the cursor
RefreshScreen ==
    /\ pc = "refresh"
    /\ fault = "none"
    /\ IF scroll_panics(cursor_controller, editor_rows)
       THEN Panic("slice index out of range")
       ELSE /\ cursor_controller' = scroll(cursor_controller, editor_rows)
            /\ pc' = "key"
            /\ UNCHANGED <<editor_rows, search_index, dirty, mode, input,
                           saved_cursor, fault, probe, file>>

EditKey ==
    /\ pc = "key"
    /\ fault = "none"
    /\ mode = "edit"

\* The result of an editing command of Output becomes the next state
ApplyOutcome(o) ==
    IF o.fault # "none"
    THEN Panic(o.fault)
    ELSE /\ editor_rows' = o.rows
         /\ cursor_controller' = o.cc
         /\ dirty' = o.dirty
         /\ pc' = "refresh"
         /\ UNCHANGED <<search_index, mode, input, saved_cursor, fault, probe, file>>

\* process_keypress: Up, Down, Left, Right, Home, End
MoveCursor(direction) ==
    /\ EditKey
    /\ cursor_controller' = move_cursor(cursor_controller, direction, editor_rows)
    /\ pc' = "refresh"
    /\ UNCHANGED <<editor_rows, search_index, dirty, mode, input, saved_cursor,
                   fault, probe, file>>

\* A plausible slip: PageDown forgets the "- 1"
page_move_mut(cc, key, rows) ==
    IF key = "PageUp"
    THEN [cc EXCEPT !.cursor_y = cc.row_offset]
    ELSE [cc EXCEPT !.cursor_y = Min(cc.screen_rows + cc.row_offset,
                                     number_of_rows(rows))]

\* The PageUp / PageDown arm of process_keypress
page_move(cc, key, rows) ==
    IF key = "PageUp"
    THEN [cc EXCEPT !.cursor_y = cc.row_offset]
    ELSE [cc EXCEPT !.cursor_y = Min(cc.screen_rows + cc.row_offset - 1,
                                     number_of_rows(rows))]

\* process_keypress: PageUp
PageUp ==
    /\ EditKey
    /\ cursor_controller' = page_move(cursor_controller, "PageUp", editor_rows)
    /\ pc' = "refresh"
    /\ UNCHANGED <<editor_rows, search_index, dirty, mode, input, saved_cursor,
                   fault, probe, file>>

\* process_keypress: PageDown
PageDown ==
    /\ EditKey
    /\ cursor_controller' = page_move(cursor_controller, "PageDown", editor_rows)
    /\ pc' = "refresh"
    /\ UNCHANGED <<editor_rows, search_index, dirty, mode, input, saved_cursor,
                   fault, probe, file>>

\* The buffer stays within the model's bounds
RoomForChar ==
    IF cursor_controller.cursor_y < number_of_rows(editor_rows)
    THEN /\ dirty + 1 <= MaxDirty
         /\ Len(get_row(editor_rows, cursor_controller.cursor_y)) < MaxLen
    ELSE /\ dirty + 2 <= MaxDirty
         /\ number_of_rows(editor_rows) < MaxRows

\* process_keypress: a character or Tab
InsertChar(ch) ==
    /\ EditKey
    /\ RoomForChar
    /\ ApplyOutcome(insert_char(editor_rows, cursor_controller, dirty, ch))

\* process_keypress: Enter
InsertNewline ==
    /\ EditKey
    /\ dirty < MaxDirty
    /\ number_of_rows(editor_rows) < MaxRows
    /\ ApplyOutcome(insert_newline(editor_rows, cursor_controller, dirty))

\* process_keypress: Backspace
DeleteBackward ==
    /\ EditKey
    /\ dirty < MaxDirty
    /\ ApplyOutcome(delete_char(editor_rows, cursor_controller, dirty))

\* process_keypress: Delete, i.e. move_cursor(Right) then delete_char
DeleteForward ==
    /\ EditKey
    /\ dirty < MaxDirty
    /\ ApplyOutcome(delete_char(editor_rows,
                                move_cursor(cursor_controller, "Right", editor_rows),
                                dirty))

\* process_keypress: a key no arm handles (the final "_ => {}")
IgnoredKey ==
    /\ EditKey
    /\ pc' = "refresh"
    /\ UNCHANGED <<editor_rows, cursor_controller, search_index, dirty, mode,
                   input, saved_cursor, fault, probe, file>>

\* process_keypress: Ctrl+G runs Output::find, which copies the cursor
\* controller and enters the prompt! loop
FindStart ==
    /\ EditKey
    /\ saved_cursor' = cursor_controller
    /\ mode' = "find"
    /\ input' = <<>>
    /\ pc' = "refresh"
    /\ UNCHANGED <<editor_rows, cursor_controller, search_index, dirty, fault, probe, file>>

\* The pattern KeyCode::Char(..) | KeyCode::Tab: a key code is written as its
\* character for KeyCode::Char, as TAB for KeyCode::Tab, and by its name of
\* several letters for every other variant ("Up", "Esc", "F1", "Insert",
\* "BackTab", "Null", ...)
is_char_or_tab(code) == Len(code) = 1

\* The arm of the match in process_keypress that a key event selects
key_arm(code, modifiers) ==
    CASE code = "q" /\ modifiers = "CONTROL" -> "quit"
      [] code \in {"Up", "Down", "Left", "Right", "Home", "End"}
            /\ modifiers = "NONE" -> "move"
      [] code \in {"PageUp", "PageDown"} /\ modifiers = "NONE" -> "page"
      [] code = "s" /\ modifiers = "CONTROL" -> "save"
      [] code = "g" /\ modifiers = "CONTROL" -> "find"
      [] code \in {"Backspace", "Delete"} /\ modifiers = "NONE" -> "delete"
      [] code = "Enter" /\ modifiers = "NONE" -> "newline"
      [] is_char_or_tab(code) /\ modifiers \in {"NONE", "SHIFT"} -> "insert"
      [] OTHER -> "ignored"

\* process_keypress: Ctrl+F or Ctrl+G, dispatched by the match
ControlKey(ch) ==
    IF key_arm(ch, "CONTROL") = "find"
    THEN FindStart
    ELSE IgnoredKey

FindKey ==
    /\ pc = "key"
    /\ fault = "none"
    /\ mode = "find"

\* One iteration of the prompt! loop that stays in the loop: the input after
\* the key's own effect, then the callback with the key code
PromptStep(new_input, key_code) ==
    LET r == find_callback(editor_rows, cursor_controller, search_index,
                           new_input, key_code)
    IN  IF r.fault # "none"
        THEN Panic(r.fault)
        ELSE /\ cursor_controller' = r.cc
             /\ search_index' = r.si
             /\ input' = new_input
             /\ pc' = "refresh"
             /\ UNCHANGED <<editor_rows, dirty, mode, saved_cursor, fault, probe, file>>

\* prompt!: a character or Tab is pushed onto the input
FindChar(ch) ==
    /\ FindKey
    /\ Len(input) < MaxQuery
    /\ PromptStep(Append(input, ch), "Char")

\* prompt!: Backspace or Delete pops the input
FindBackspace ==
    /\ FindKey
    /\ PromptStep(SubSeq(input, 1, Len(input) - 1), "Backspace")

\* prompt!: an arrow key leaves the input alone
FindArrow(direction) ==
    /\ FindKey
    /\ PromptStep(input, direction)

\* prompt!: any other key (Home, End, PageUp, ...) leaves the input alone
FindOtherKey ==
    /\ FindKey
    /\ PromptStep(input, "Home")

\* prompt!: Enter without modifiers accepts a non-empty input and leaves the
\* loop; with an empty input, or with a modifier, only the callback runs
FindEnter(modifiers) ==
    /\ FindKey
    /\ LET r == find_callback(editor_rows, cursor_controller, search_index,
                              input, "Enter")
       IN  /\ cursor_controller' = r.cc
           /\ search_index' = r.si
           /\ IF modifiers = "NONE" /\ input # <<>>
              THEN mode' = "edit" /\ input' = <<>> /\ saved_cursor' = NoSaved
              ELSE UNCHANGED <<mode, input, saved_cursor>>
    /\ pc' = "refresh"
    /\ UNCHANGED <<editor_rows, dirty, fault, probe, file>>

\* A plausible slip: Output::find forgets to restore the copied cursor
FindEsc_mut ==
    /\ FindKey
    /\ LET r == find_callback(editor_rows, cursor_controller, search_index,
                              <<>>, "Esc")
       IN  search_index' = r.si
    /\ cursor_controller' = cursor_controller
    /\ saved_cursor' = NoSaved
    /\ mode' = "edit"
    /\ input' = <<>>
    /\ pc' = "refresh"
    /\ UNCHANGED <<editor_rows, dirty, fault, probe, file>>

\* prompt!: Esc clears the input, runs the callback and leaves the loop;
\* Output::find then restores the copied cursor controller
FindEsc ==
    /\ FindKey
    /\ LET r == find_callback(editor_rows, cursor_controller, search_index,
                              <<>>, "Esc")
       IN  search_index' = r.si
    /\ cursor_controller' = saved_cursor
    /\ saved_cursor' = NoSaved
    /\ mode' = "edit"
    /\ input' = <<>>
    /\ pc' = "refresh"
    /\ UNCHANGED <<editor_rows, dirty, fault, probe, file>>

Next ==
    \/ RefreshScreen
    \/ \E direction \in {"Up", "Down", "Left", "Right", "Home", "End"} :
          MoveCursor(direction)
    \/ PageUp
    \/ PageDown
    \/ \E ch \in BufferChars : InsertChar(ch)
    \/ InsertNewline
    \/ DeleteBackward
    \/ DeleteForward
    \/ IgnoredKey
    \/ FindStart
    \/ \E ch \in ControlChars : ControlKey(ch)
    \/ \E ch \in QueryChars : FindChar(ch)
    \/ FindBackspace
    \/ \E direction \in {"Up", "Down", "Left", "Right"} : FindArrow(direction)
    \/ FindOtherKey
    \/ \E modifiers \in {"NONE", "SHIFT"} : FindEnter(modifiers)
    \/ FindEsc

Spec == Init /\ [][Next]_vars

RECURSIVE terminated(_)
\* The contents of a file with the given lines, each ended by "\n"
terminated(lines) ==
    IF lines = <<>> THEN <<>>
    ELSE lines[1] \o <<"\n">> \o terminated(Tail(lines))

\* Files of up to MaxSearchRows lines of up to MaxLen characters
SearchFiles ==
    {terminated(lines) :
        lines \in UNION {[1..n -> SeqsUpTo(BufferChars, MaxLen)] :
                            n \in 0..MaxSearchRows}}

\* main: Editor::new on a readable file, on the largest screen
SearchInit ==
    /\ \E contents \in SearchFiles :
          /\ OutputNew(<<MaxScreen, MaxScreen>>, from_file(contents), "none")
          /\ file = ArgFile(contents)
    /\ probe = NoProbe

\* The editor with search sessions only, on the file as it was loaded
SearchNext ==
    \/ RefreshScreen
    \/ IgnoredKey
    \/ FindStart
    \/ \E ch \in ControlChars : ControlKey(ch)
    \/ \E ch \in QueryChars : FindChar(ch)
    \/ FindBackspace
    \/ \E direction \in {"Up", "Down", "Left", "Right"} : FindArrow(direction)
    \/ FindOtherKey
    \/ \E modifiers \in {"NONE", "SHIFT"} : FindEnter(modifiers)
    \/ FindEsc

SearchSpec == SearchInit /\ [][SearchNext]_vars

\* The editor without search sessions: movement, paging and editing only
EditNext ==
    \/ RefreshScreen
    \/ \E direction \in {"Up", "Down", "Left", "Right", "Home", "End"} :
          MoveCursor(direction)
    \/ PageUp
    \/ PageDown
    \/ \E ch \in BufferChars : InsertChar(ch)
    \/ InsertNewline
    \/ DeleteBackward
    \/ DeleteForward
    \/ IgnoredKey

EditSpec == Init /\ [][EditNext]_vars

---------------------------------------------------------------------------
(* Saving *)

RECURSIVE join_newline(_)
\* The row contents joined with "\n" (Vec<&str>::join)
join_newline(rows) ==
    IF rows = <<>> THEN <<>>
    ELSE IF Len(rows) = 1 THEN rows[1].row_content
    ELSE rows[1].row_content \o <<"\n">> \o join_newline(Tail(rows))

\* The outcome of the file operations of one save: all succeed, or one of
\* open, set_len and write_all fails, write_all after k bytes went out
IoOk == [fails |-> "none", k |-> 0]

\* write_all on no bytes makes no write and cannot fail
IoFailures(rows) ==
    {[fails |-> "open", k |-> 0], [fails |-> "set_len", k |-> 0]}
    \cup {[fails |-> "write", k |-> k] : k \in 0..Len(join_newline(rows)) - 1}

IoOutcomes(rows) == {IoOk} \cup IoFailures(rows)

\* File::set_len: the contents cut to n bytes, or extended to n with zeros
set_len(disk, n) ==
    [i \in 1..n |-> IF i <= Len(disk) THEN disk[i] ELSE NUL]

\* A plausible slip: the last line gets a newline too
save_mut(f, rows, io) ==
    LET contents == join_newline(rows) \o <<"\n">>
        opened == IF f.exists THEN f.disk ELSE <<>>
        sized == set_len(opened, Len(contents))
    IN  CASE io.fails = "open" -> f
          [] io.fails = "set_len" -> [f EXCEPT !.exists = TRUE, !.disk = opened]
          [] io.fails = "write" ->
                [f EXCEPT !.exists = TRUE,
                          !.disk = SubSeq(contents, 1, io.k)
                                   \o SubSeq(sized, io.k + 1, Len(sized))]
          [] OTHER ->
                [f EXCEPT !.exists = TRUE, !.disk = contents,
                          !.written = Len(contents), !.saves = @ + 1]

\* EditorRows::save with a file name.  OpenOptions write + create opens the
\* file, creating it empty when it does not exist and leaving its bytes alone
\* when it does; set_len cuts or zero-extends it to the length of the joined
\* contents; write_all writes them from offset 0.  When all succeed the file
\* holds exactly the joined contents and Ok(len) is returned.  A failure comes
\* back as Err, and the "?" of process_keypress and of main end the process:
\* a failed open leaves the file untouched, a failed set_len leaves it created,
\* a failed write_all leaves it resized with the first k bytes written
save(f, rows, io) ==
    LET contents == join_newline(rows)
        opened == IF f.exists THEN f.disk ELSE <<>>
        sized == set_len(opened, Len(contents))
    IN  CASE io.fails = "open" -> f
          [] io.fails = "set_len" -> [f EXCEPT !.exists = TRUE, !.disk = opened]
          [] io.fails = "write" ->
                [f EXCEPT !.exists = TRUE,
                          !.disk = SubSeq(contents, 1, io.k)
                                   \o SubSeq(sized, io.k + 1, Len(sized))]
          [] OTHER ->
                [f EXCEPT !.exists = TRUE, !.disk = contents,
                          !.written = Len(contents), !.saves = @ + 1]

\* A plausible slip: a successful save forgets to reset the dirty counter
SaveTo_mut(f, io) ==
    /\ file' = save(f, editor_rows, io)
    /\ IF io = IoOk
       THEN /\ pc' = "refresh"
            /\ fault' = "none"
       ELSE /\ fault' = "exit: io error"
            /\ UNCHANGED pc
    /\ mode' = "edit"
    /\ input' = <<>>
    /\ UNCHANGED <<editor_rows, cursor_controller, search_index, saved_cursor,
                   probe, dirty>>

\* The tail of the Ctrl+S arm once a file name is known
SaveTo(f, io) ==
    /\ file' = save(f, editor_rows, io)
    /\ IF io = IoOk
       THEN /\ dirty' = 0
            /\ pc' = "refresh"
            /\ fault' = "none"
       ELSE /\ fault' = "exit: io error"
            /\ UNCHANGED <<dirty, pc>>
    /\ mode' = "edit"
    /\ input' = <<>>
    /\ UNCHANGED <<editor_rows, cursor_controller, search_index, saved_cursor,
                   probe>>

\* process_keypress: Ctrl+S when the buffer has a file name
SaveKey(io) ==
    /\ EditKey
    /\ file.has_name
    /\ file.saves < MaxSaves
    /\ SaveTo(file, io)

\* process_keypress: Ctrl+S without a file name opens the "Save as" prompt
SaveAsStart ==
    /\ EditKey
    /\ ~file.has_name
    /\ mode' = "saveas"
    /\ input' = <<>>
    /\ pc' = "refresh"
    /\ UNCHANGED <<editor_rows, cursor_controller, search_index, dirty,
                   saved_cursor, fault, probe, file>>

SaveAsKey ==
    /\ pc = "key"
    /\ fault = "none"
    /\ mode = "saveas"

\* One iteration of the "Save as" prompt that stays in the loop
SaveAsStep(new_input) ==
    /\ input' = new_input
    /\ pc' = "refresh"
    /\ UNCHANGED <<editor_rows, cursor_controller, search_index, dirty, mode,
                   saved_cursor, fault, probe, file>>

\* prompt!: a character is pushed onto the input
SaveAsChar(ch) ==
    /\ SaveAsKey
    /\ Len(input) < MaxQuery
    /\ SaveAsStep(Append(input, ch))

\* prompt!: Backspace or Delete pops the input
SaveAsBackspace ==
    /\ SaveAsKey
    /\ SaveAsStep(SubSeq(input, 1, Len(input) - 1))

\* prompt!: any other key, and Enter on an empty input, change nothing
SaveAsIgnoredKey ==
    /\ SaveAsKey
    /\ SaveAsStep(input)

\* prompt!: Enter on a non-empty input returns it; it becomes the file name
\* and the buffer is saved
SaveAsEnter(io) ==
    /\ SaveAsKey
    /\ input # <<>>
    /\ file.saves < MaxSaves
    /\ SaveTo([file EXCEPT !.has_name = TRUE, !.name = input], io)

\* prompt!: Esc returns None: "Save aborted"
SaveAsEsc ==
    /\ SaveAsKey
    /\ mode' = "edit"
    /\ input' = <<>>
    /\ pc' = "refresh"
    /\ UNCHANGED <<editor_rows, cursor_controller, search_index, dirty,
                   saved_cursor, fault, probe, file>>

\* A Ctrl+S, or the Enter of "Save as", whose file operations all succeed
SaveSucceeds == SaveKey(IoOk) \/ SaveAsEnter(IoOk)

\* A Ctrl+S, or the Enter of "Save as", one of whose file operations fails
SaveFails == \E io \in IoFailures(editor_rows) : SaveKey(io) \/ SaveAsEnter(io)

SaveNext ==
    \/ \E io \in IoOutcomes(editor_rows) : SaveKey(io)
    \/ SaveAsStart
    \/ \E ch \in NameChars : SaveAsChar(ch)
    \/ SaveAsBackspace
    \/ SaveAsIgnoredKey
    \/ \E io \in IoOutcomes(editor_rows) : SaveAsEnter(io)
    \/ SaveAsEsc

\* The editor without search sessions: movement, paging, editing and saving
FileNext ==
    \/ EditNext
    \/ SaveNext

FileSpec == Init /\ [][FileNext]_vars

\* The whole editor: movement, paging, editing, search sessions and saving
WholeNext ==
    \/ Next
    \/ SaveNext

\* The editor on the largest screen, started without an argument or on an
\* empty file
WholeInit ==
    /\ Init
    /\ cursor_controller.screen_columns = MaxScreen
    /\ cursor_controller.screen_rows = MaxScreen
    /\ file.has_name => (file.exists /\ file.disk = <<>>)

WholeSpec == WholeInit /\ [][WholeNext]_vars

---------------------------------------------------------------------------
(* Key sequences: the state before the last key is kept in probe *)

Directions == {"Up", "Down", "Left", "Right", "Home", "End"}

\* The keys of process_keypress that edit or move ("F1" stands for a key no
\* arm handles)
EditKeys == Directions \cup {"PageUp", "PageDown", "Backspace", "Delete", "Enter",
                             "F1"} \cup BufferChars

\* The match of Editor::process_keypress on an editing or movement key
process_keypress(key, rows, cc, d) ==
    CASE key \in Directions -> Outcome(rows, move_cursor(cc, key, rows), d, "none")
      [] key \in {"PageUp", "PageDown"} ->
            Outcome(rows, page_move(cc, key, rows), d, "none")
      [] key = "Backspace" -> delete_char(rows, cc, d)
      [] key = "Delete" -> delete_char(rows, move_cursor(cc, "Right", rows), d)
      [] key = "Enter" -> insert_newline(rows, cc, d)
      [] key \in BufferChars -> insert_char(rows, cc, d, key)
      [] OTHER -> Outcome(rows, cc, d, "none")

\* The state in which the last key was read, and the number of keys so far
KeyRecord(key, n) ==
    [fn |-> "key", key |-> key, rows |-> editor_rows, cc |-> cursor_controller,
     dirty |-> dirty, keys |-> n,
     before |-> IF probe.fn = "key" THEN probe.key ELSE "none"]

KeysSoFar == IF probe.fn = "key" THEN probe.keys ELSE 0

\* Editor::run: process_keypress on one key
ProcessKeypress(key) ==
    /\ EditKey
    /\ KeysSoFar < MaxKeys
    /\ LET o == process_keypress(key, editor_rows, cursor_controller, dirty)
       IN  /\ editor_rows' = o.rows
           /\ cursor_controller' = o.cc
           /\ dirty' = o.dirty
           /\ fault' = o.fault
           /\ pc' = IF o.fault = "none" THEN "refresh" ELSE pc
    /\ probe' = KeyRecord(key, KeysSoFar + 1)
    /\ UNCHANGED <<search_index, mode, input, saved_cursor, file>>

KeyNext ==
    \/ RefreshScreen
    \/ \E key \in EditKeys : ProcessKeypress(key)

KeySpec == Init /\ [][KeyNext]_vars

\* The last two steps were: key first, a refresh, and now key second is taken
KeyAfterKey(first, second) ==
    /\ probe.fn = "key"
    /\ probe.key = first
    /\ ProcessKeypress(second)

---------------------------------------------------------------------------
(* Scroll from an arbitrary prior viewport: the cursor is inside the buffer, *)
(* the offsets are anything, the screen is at least 1 x 1.                   *)

LoadableRows == {<<>>} \cup {from_file(f) : f \in SeqsUpTo(LoadChars, MaxFileLen)}

ScrollInit ==
    /\ \E rows \in LoadableRows :
       \E w \in 1..MaxScreen, h \in 1..MaxScreen :
       \E y \in 0..Len(rows), ro \in 0..MaxOffset, co \in 0..MaxOffset :
       \E x \in 0..(IF y < Len(rows) THEN Len(rows[y + 1].row_content) ELSE 0) :
          /\ editor_rows = rows
          /\ cursor_controller =
                [CursorController_new(<<w, h>>) EXCEPT
                    !.cursor_x = x, !.cursor_y = y,
                    !.row_offset = ro, !.column_offset = co]
    /\ search_index = SearchIndex_new
    /\ dirty = 0
    /\ mode = "edit"
    /\ input = <<>>
    /\ saved_cursor = NoSaved
    /\ pc = "refresh"
    /\ fault = "none"
    /\ probe = NoProbe
    /\ file = NoFile

ScrollNext == RefreshScreen

ScrollSpec == ScrollInit /\ [][ScrollNext]_vars

---------------------------------------------------------------------------
(* The tab renderer's functions applied to arbitrary small arguments *)

MaxProbeCol == TAB_STOP * MaxProbeLen + 1

\* Widest window the paint is applied with
MaxPaintColumns == 9

ProbeInit ==
    /\ editor_rows = <<>>
    /\ cursor_controller = CursorController_new(<<1, 1>>)
    /\ search_index = SearchIndex_new
    /\ dirty = 0
    /\ mode = "edit"
    /\ input = <<>>
    /\ saved_cursor = NoSaved
    /\ pc = "refresh"
    /\ fault = "none"
    /\ file = NoFile
    /\ \E content \in SeqsUpTo(ProbeChars, MaxProbeLen), k \in 0..MaxProbeCol :
          probe = [NoProbe EXCEPT !.fn = "input", !.content = content, !.k = k]

ProbeRow == render_row(Row_new(probe.content, <<>>))

ProbeDone(fn, out_str, out_num) ==
    /\ probe.fn = "input"
    /\ probe' = [probe EXCEPT !.fn = fn, !.out_str = out_str, !.out_num = out_num]
    /\ UNCHANGED <<editor_rows, cursor_controller, search_index, dirty, mode,
                   input, saved_cursor, pc, fault, file>>

\* render_row on a fresh row holding the content
ProbeRenderRow ==
    /\ probe.k = 0
    /\ ProbeDone("render_row", ProbeRow.render, 0)

\* get_render_x with cursor_x = k on a row holding the content
ProbeGetRenderX ==
    IF get_render_x_panics(probe.k, ProbeRow)
    THEN ProbeDone("get_render_x panic", <<>>, 0)
    ELSE ProbeDone("get_render_x", <<>>, get_render_x(probe.k, ProbeRow))

\* get_row_content_x with render_x = k on a row holding the content
ProbeGetRowContentX ==
    ProbeDone("get_row_content_x", <<>>, get_row_content_x(ProbeRow, probe.k))

\* get_row_content_x of get_render_x, for a cursor_x = k inside the row
ProbeRoundTrip ==
    /\ ~get_render_x_panics(probe.k, ProbeRow)
    /\ ProbeDone("round_trip", <<>>,
                 get_row_content_x(ProbeRow, get_render_x(probe.k, ProbeRow)))

\* draw_rows painting a row holding the content, with column_offset = k
ProbeDrawRow(screen_columns) ==
    /\ probe.fn = "input"
    /\ LET render == ProbeRow.render
           s == draw_row_slice(render, probe.k, screen_columns)
       IN  probe' = [fn |-> IF draw_row_panics(render, probe.k, screen_columns)
                           THEN "draw_rows panic" ELSE "draw_rows",
                     content |-> probe.content, k |-> probe.k,
                     screen_columns |-> screen_columns,
                     start |-> s.start, len |-> s.len,
                     out_str |-> IF draw_row_panics(render, probe.k, screen_columns)
                                 THEN <<>>
                                 ELSE draw_row(render, probe.k, screen_columns)]
    /\ UNCHANGED <<editor_rows, cursor_controller, search_index, dirty, mode,
                   input, saved_cursor, pc, fault, file>>

ProbeNext ==
    \/ \E screen_columns \in 1..MaxPaintColumns : ProbeDrawRow(screen_columns)
    \/ ProbeRenderRow
    \/ ProbeGetRenderX
    \/ ProbeGetRowContentX
    \/ ProbeRoundTrip

ProbeSpec == ProbeInit /\ [][ProbeNext]_vars

---------------------------------------------------------------------------
(* Properties *)

\* Length of the cursor's row; 0 on the virtual row past the last line
CursorRowLen ==
    IF cursor_controller.cursor_y < Len(editor_rows)
    THEN Len(editor_rows[cursor_controller.cursor_y + 1].row_content)
    ELSE 0

\* The next tab stop after a rendered length, as the specification states it
next_stop(rendered_len) == rendered_len + (TAB_STOP - (rendered_len % TAB_STOP))

RECURSIVE tab_expansion(_)
\* The rendered form of a content as the specification defines it: a tab
\* fills up to the next stop, any other character maps to itself
tab_expansion(content) ==
    IF content = <<>> THEN <<>>
    ELSE LET before == tab_expansion(SubSeq(content, 1, Len(content) - 1))
             c == content[Len(content)]
         IN  IF c = TAB
             THEN before \o [j \in 1..(next_stop(Len(before)) - Len(before)) |-> SPACE]
             ELSE Append(before, c)

\* C1: after every command the cursor is inside the buffer:
\* 0 <= cursor_y <= number of rows and 0 <= cursor_x <= length of row
\* cursor_y (0 on the virtual row past the last line).
C1_CursorInBounds ==
    /\ 0 <= cursor_controller.cursor_y
    /\ cursor_controller.cursor_y <= Len(editor_rows)
    /\ 0 <= cursor_controller.cursor_x
    /\ cursor_controller.cursor_x <= CursorRowLen

\* C2: after scroll, from any prior offsets with the cursor inside the buffer
\* and any screen of at least 1 x 1, the cursor row lies in
\* [row_offset, row_offset + screen_rows), the rendered column lies in
\* [column_offset, column_offset + screen_columns), and so the screen
\* position of the cursor is non-negative and inside the screen.
C2_ScrollInvariant ==
    (pc = "key" /\ fault = "none") =>
        LET cc == cursor_controller
        IN  /\ cc.row_offset <= cc.cursor_y
            /\ cc.cursor_y < cc.row_offset + cc.screen_rows
            /\ cc.column_offset <= cc.render_x
            /\ cc.render_x < cc.column_offset + cc.screen_columns
            /\ screen_cursor(cc)[1] \in 0..(cc.screen_columns - 1)
            /\ screen_cursor(cc)[2] \in 0..(cc.screen_rows - 1)

\* A scroll that had to move both offsets to the far edge of the window
C2_Witness ==
    /\ pc = "key"
    /\ fault = "none"
    /\ cursor_controller.row_offset > 0
    /\ cursor_controller.row_offset =
          cursor_controller.cursor_y - cursor_controller.screen_rows + 1
    /\ cursor_controller.column_offset > 0
    /\ cursor_controller.column_offset =
          cursor_controller.render_x - cursor_controller.screen_columns + 1

\* C3: in every reachable state, every row's cached render is the tab
\* expansion of the row's current content.
C3_RenderIsTabExpansion ==
    \A i \in 1..Len(editor_rows) :
        editor_rows[i].render = tab_expansion(editor_rows[i].row_content)

\* The buffer has been edited and holds a row whose tab is followed by text
C3_Witness ==
    /\ dirty > 0
    /\ \E i \in 1..Len(editor_rows) :
          /\ Len(editor_rows[i].row_content) >= 2
          /\ editor_rows[i].row_content[1] = TAB
          /\ editor_rows[i].row_content[2] = "a"
          /\ Len(editor_rows[i].render) = TAB_STOP + 1

\* C4: DeleteBackward with the cursor at row 0, column 0 changes neither the
\* rows, nor the cursor, nor the dirty counter, and raises no fault.
C4_DeleteAtOriginIsNoOp ==
    [][(/\ DeleteBackward
        /\ cursor_controller.cursor_x = 0
        /\ cursor_controller.cursor_y = 0)
       => (/\ editor_rows' = editor_rows
           /\ cursor_controller'.cursor_x = 0
           /\ cursor_controller'.cursor_y = 0
           /\ dirty' = dirty
           /\ fault' = "none")]_vars

\* C5: during a search session on a non-empty buffer, y_index is the index of
\* a row and x_index is at most the rendered length of that row.
C5_SearchIndexInRange ==
    (mode = "find" /\ Len(editor_rows) > 0) =>
        /\ search_index.y_index < Len(editor_rows)
        /\ search_index.x_index <=
              Len(editor_rows[search_index.y_index + 1].render)

RowContains(i, keyword) == str_find(editor_rows[i].render, keyword) # NoMatch

\* No row holds the keyword: a direction-less keystroke finds nothing
NoMatchScan(keyword) ==
    \A i \in 1..Len(editor_rows) : ~RowContains(i, keyword)

\* No row after the current match row holds the keyword
NoMatchDown(keyword) ==
    \A i \in 1..Len(editor_rows) :
        (i - 1 > search_index.y_index) => ~RowContains(i, keyword)

\* No row before the current match row holds the keyword
NoMatchUp(keyword) ==
    \A i \in 1..Len(editor_rows) :
        (i - 1 < search_index.y_index) => ~RowContains(i, keyword)

\* The current match row has no occurrence starting after the match column
NoMatchRight(keyword) ==
    search_index.y_index < Len(editor_rows) =>
        LET render == editor_rows[search_index.y_index + 1].render
        IN  \A p \in 0..Len(render) :
                p > search_index.x_index => ~OccursAt(render, keyword, p)

\* The current match row has no occurrence lying before the match column
NoMatchLeft(keyword) ==
    search_index.y_index < Len(editor_rows) =>
        LET render == editor_rows[search_index.y_index + 1].render
        IN  \A p \in 0..Len(render) :
                p + Len(keyword) <= search_index.x_index
                    => ~OccursAt(render, keyword, p)

\* The cursor and the recorded match position are as before the step
MatchUnmoved ==
    /\ cursor_controller'.cursor_x = cursor_controller.cursor_x
    /\ cursor_controller'.cursor_y = cursor_controller.cursor_y
    /\ search_index'.x_index = search_index.x_index
    /\ search_index'.y_index = search_index.y_index

\* C6: a search keystroke that finds no match along its scan direction leaves
\* the cursor and the match position (x_index, y_index) as they were, for
\* direction-less, row-direction and column-direction keystrokes.
C6_NoMatchIsSticky ==
    [][/\ \A ch \in QueryChars :
            (FindChar(ch) /\ NoMatchScan(Append(input, ch))) => MatchUnmoved
       /\ (FindBackspace /\ NoMatchScan(SubSeq(input, 1, Len(input) - 1)))
            => MatchUnmoved
       /\ (FindOtherKey /\ NoMatchScan(input)) => MatchUnmoved
       /\ (FindArrow("Down") /\ NoMatchDown(input)) => MatchUnmoved
       /\ (FindArrow("Up") /\ NoMatchUp(input)) => MatchUnmoved
       /\ (FindArrow("Right") /\ NoMatchRight(input)) => MatchUnmoved
       /\ (FindArrow("Left") /\ NoMatchLeft(input)) => MatchUnmoved]_vars

\* C7: for every content and every logical column k in 0..=length,
\* get_row_content_x(get_render_x(k)) = k.
C7_RoundTrip ==
    probe.fn = "round_trip" => probe.out_num = probe.k

\* C8: get_row_content_x returns the logical length of the row when the
\* rendered column is at or beyond the rendered width, and 0 for an empty row.
C8_PastEndGivesLength ==
    probe.fn = "get_row_content_x" =>
        /\ probe.k >= Len(tab_expansion(probe.content))
              => probe.out_num = Len(probe.content)
        /\ probe.content = <<>> => probe.out_num = 0

\* C9: render_row maps every character other than a tab to itself and pads a
\* tab with 1 to 8 spaces up to the next multiple of 8; a lone tab renders as
\* 8 spaces and "a" followed by a tab as "a" and 7 spaces.
C9_RenderRow ==
    probe.fn = "render_row" =>
        /\ probe.out_str = tab_expansion(probe.content)
        /\ (probe.content # <<>> /\ probe.content[Len(probe.content)] = TAB)
              => Len(probe.out_str) % 8 = 0
        /\ probe.content = <<TAB>> => probe.out_str = [j \in 1..8 |-> SPACE]
        /\ probe.content = <<"a", TAB>>
              => probe.out_str = <<"a">> \o [j \in 1..7 |-> SPACE]

\* render_row has rendered "a" followed by a tab
C9_Witness ==
    /\ probe.fn = "render_row"
    /\ probe.content = <<"a", TAB>>
    /\ Len(probe.out_str) = 8

\* C10: get_render_x at logical column k equals the length of the render of
\* the first k characters, and equals k when the content has no tab.
C10_RenderXIsPrefixWidth ==
    probe.fn = "get_render_x" =>
        /\ probe.out_num =
              Len(render_row(Row_new(SubSeq(probe.content, 1, probe.k), <<>>)).render)
        /\ (\A j \in 1..Len(probe.content) : probe.content[j] # TAB)
              => probe.out_num = probe.k

\* get_render_x has been taken past a tab that follows a character
C10_Witness ==
    /\ probe.fn = "get_render_x"
    /\ probe.content = <<"a", TAB, "b">>
    /\ probe.k = 3
    /\ probe.out_num = 9

---------------------------------------------------------------------------
(* Search: stepping by rows, leaving a session *)

\* The recorded match (y_index, x_index) is an occurrence of the query and the
\* cursor is on its row
CurrentMatch ==
    /\ search_index.y_index < number_of_rows(editor_rows)
    /\ OccursAt(editor_rows[search_index.y_index + 1].render, input,
                search_index.x_index)
    /\ cursor_controller.cursor_y = search_index.y_index

\* The 0-based rows holding the query, below and above the current match row
RowsBelow == {j \in 0..Len(editor_rows) - 1 :
                j > search_index.y_index /\ RowContains(j + 1, input)}
RowsAbove == {j \in 0..Len(editor_rows) - 1 :
                j < search_index.y_index /\ RowContains(j + 1, input)}

\* Column c of the row is the character whose rendered text covers offset idx
ColumnCovers(row, c, idx) ==
    IF Len(row.render) = 0 THEN c = 0
    ELSE /\ c < Len(row.row_content)
         /\ get_render_x(c, row) <= idx
         /\ idx < get_render_x(c + 1, row)

\* After the step the match is the first occurrence of the query in row j and
\* the cursor is on it
MatchMovedTo(j) ==
    LET row == editor_rows[j + 1]
        idx == str_find(row.render, input)
    IN  /\ search_index'.y_index = j
        /\ search_index'.x_index = idx
        /\ cursor_controller'.cursor_y = j
        /\ ColumnCovers(row, cursor_controller'.cursor_x, idx)

\* C13: in a search session with a current match at row r, Down moves the
\* match to the nearest row below r whose rendered text holds the query, and Up
\* to the nearest such row above r, at the first occurrence in that row.
C13_RowStepping ==
    [][/\ (FindArrow("Down") /\ CurrentMatch /\ RowsBelow # {})
            => MatchMovedTo(CHOOSE j \in RowsBelow : \A k \in RowsBelow : j <= k)
       /\ (FindArrow("Up") /\ CurrentMatch /\ RowsAbove # {})
            => MatchMovedTo(CHOOSE j \in RowsAbove : \A k \in RowsAbove : j >= k)
      ]_vars

\* Down has moved the match from row 0 to row 2, past row 1, which does not
\* hold the query; a scan without direction stops at row 0
C13_Witness ==
    /\ mode = "find"
    /\ fault = "none"
    /\ input # <<>>
    /\ search_index.y_direction = "Forward"
    /\ search_index.y_index = 2
    /\ cursor_controller.cursor_y = 2
    /\ number_of_rows(editor_rows) = 3
    /\ RowContains(1, input)
    /\ ~RowContains(2, input)
    /\ RowContains(3, input)

\* C14: Esc ends a search session with the cursor and both viewport offsets as
\* they were captured when the session started; Enter on a non-empty query
\* ends it with the cursor where the session left it; either way the search
\* index is neutral afterwards, so every session starts from the neutral index.
C14_LeavingSearch ==
    /\ [][/\ FindStart
              => /\ saved_cursor' = cursor_controller
                 /\ search_index = SearchIndex_new
          /\ (mode = "find" /\ mode' = "find") => saved_cursor' = saved_cursor
          /\ FindEsc
              => /\ mode' = "edit"
                 /\ cursor_controller'.cursor_x = saved_cursor.cursor_x
                 /\ cursor_controller'.cursor_y = saved_cursor.cursor_y
                 /\ cursor_controller'.row_offset = saved_cursor.row_offset
                 /\ cursor_controller'.column_offset = saved_cursor.column_offset
                 /\ search_index' = SearchIndex_new
          /\ (FindEnter("NONE") /\ input # <<>>)
              => /\ mode' = "edit"
                 /\ cursor_controller'.cursor_x = cursor_controller.cursor_x
                 /\ cursor_controller'.cursor_y = cursor_controller.cursor_y
                 /\ search_index' = SearchIndex_new
         ]_vars
    /\ [](mode = "edit" => search_index = SearchIndex_new)

\* A session in which a match on another row has moved the cursor and the
\* viewport away from where the session started, about to read Esc or Enter
C14_Witness ==
    /\ mode = "find"
    /\ pc = "key"
    /\ fault = "none"
    /\ input # <<>>
    /\ CurrentMatch
    /\ search_index # SearchIndex_new
    /\ cursor_controller.cursor_y # saved_cursor.cursor_y
    /\ cursor_controller.row_offset # saved_cursor.row_offset

---------------------------------------------------------------------------
(* Files *)

\* The line contents of a buffer
Contents(rows) == [i \in 1..Len(rows) |-> rows[i].row_content]

\* C15: a file that cannot be read at start-up, and a save that cannot write,
\* leave the editor running: the process neither panics nor exits on a file
\* error, and a failed save changes neither buffer, cursor nor dirty counter.
C15_FileErrorsRecoverable ==
    /\ [](fault # "Unable to read file")
    /\ [](fault # "exit: io error")
    /\ [][SaveFails
          => /\ fault' = "none"
             /\ editor_rows' = editor_rows
             /\ cursor_controller' = cursor_controller
             /\ dirty' = dirty]_vars

\* C16: every character insertion and every Enter that is carried out raises
\* dirty, and so does every Backspace or Delete that changes the lines; cursor
\* keys, paging, every step of a search session and a Backspace or Delete that
\* changes nothing leave dirty alone; a successful save sets dirty to 0, a
\* failed or aborted save leaves it alone, and nothing else ever lowers it.
C16_DirtyCounter ==
    [][/\ ((\E ch \in BufferChars : InsertChar(ch)) /\ fault' = "none")
            => dirty' > dirty
       /\ (InsertNewline /\ fault' = "none") => dirty' > dirty
       /\ ((DeleteBackward \/ DeleteForward)
              /\ Contents(editor_rows') # Contents(editor_rows))
            => dirty' > dirty
       /\ ((DeleteBackward \/ DeleteForward) /\ editor_rows' = editor_rows)
            => dirty' = dirty
       /\ ((\E d \in Directions : MoveCursor(d)) \/ PageUp \/ PageDown)
            => dirty' = dirty
       /\ (FindStart \/ mode = "find") => dirty' = dirty
       /\ SaveSucceeds => dirty' = 0
       /\ (SaveFails \/ SaveAsEsc \/ mode = "saveas")
            => (dirty' = dirty \/ SaveAsEnter(IoOk))
       /\ dirty' < dirty => SaveSucceeds
      ]_vars

\* Edits were made to the empty buffer and then saved: the file holds the
\* buffer's lines, and dirty is back at 0
C16_Witness ==
    /\ file.saves = 1
    /\ dirty = 0
    /\ pc = "refresh"
    /\ fault = "none"
    /\ Len(file.disk) >= 1
    /\ file.disk = join_newline(editor_rows)

RECURSIVE SumOfLengths(_)
SumOfLengths(rows) ==
    IF rows = <<>> THEN 0
    ELSE Len(rows[1].row_content) + SumOfLengths(Tail(rows))

\* The line lengths plus one separator between consecutive lines
ByteCount(rows) ==
    SumOfLengths(rows) + (IF Len(rows) > 0 THEN Len(rows) - 1 ELSE 0)

NoFinalNewline(contents) ==
    contents = <<>> \/ contents[Len(contents)] # "\n"

\* Every line ending of the content is a bare "\n"
NewlineSeparated(contents) ==
    \A i \in 1..Len(contents) - 1 :
        ~(contents[i] = CR /\ contents[i + 1] = "\n")

\* Loading a content with "\n" separators and no final newline and joining
\* the lines again gives the content back
LoadThenJoin ==
    \A contents \in SeqsUpTo(LoadChars, MaxRoundTripLen) :
        (NewlineSeparated(contents) /\ NoFinalNewline(contents))
            => join_newline(from_file(contents)) = contents

\* C17: a file whose content does not end in a newline, loaded and saved with
\* no edit in between, holds the same bytes afterwards; every successful save
\* reports the number of bytes written, which is the line lengths plus one
\* separator between consecutive lines, with no newline after the last line.
C17_LoadSaveRoundTrip ==
    /\ []LoadThenJoin
    /\ [][/\ (SaveKey(IoOk) /\ dirty = 0 /\ file.saves = 0
                /\ NoFinalNewline(file.disk))
              => /\ file'.disk = file.disk
                 /\ file'.written = Len(file.disk)
          /\ SaveSucceeds
              => /\ file'.written = Len(file'.disk)
                 /\ file'.written = ByteCount(editor_rows)
                 /\ file'.exists
         ]_vars

\* A file of two lines without a final newline has been saved, and holds the
\* bytes it was loaded from
C17_Witness ==
    /\ file.saves = 1
    /\ file.name = ArgName
    /\ fault = "none"
    /\ dirty = 0
    /\ Len(editor_rows) = 2
    /\ NoFinalNewline(file.disk)
    /\ editor_rows = from_file(file.disk)
    /\ file.written = Len(file.disk)

---------------------------------------------------------------------------
(* Cursor movement *)

\* The content of line y, empty for the virtual row past the last line
LineAt(rows, y) == IF y < number_of_rows(rows) THEN get_row(rows, y) ELSE <<>>

\* The cursor of cc is at column x of row y
CursorAt(cc, x, y) == cc.cursor_x = x /\ cc.cursor_y = y

\* C18: Left decrements a column above 0, goes from column 0 to the end of the
\* previous line, and changes nothing at (0, 0); Right increments a column
\* before the end of the line, goes from the end of a line to column 0 of the
\* next row, and changes nothing on the virtual row; so Right undoes Left
\* except at (0, 0), and Left undoes Right on every existing line.
C18_HorizontalMovement ==
    /\ [][LET x == cursor_controller.cursor_x
              y == cursor_controller.cursor_y
              n == number_of_rows(editor_rows)
          IN  /\ MoveCursor("Left")
                  => /\ x > 0 => CursorAt(cursor_controller', x - 1, y)
                     /\ (x = 0 /\ y > 0)
                          => CursorAt(cursor_controller',
                                      Len(get_row(editor_rows, y - 1)), y - 1)
                     /\ (x = 0 /\ y = 0) => CursorAt(cursor_controller', 0, 0)
              /\ MoveCursor("Right")
                  => /\ (y < n /\ x < Len(get_row(editor_rows, y)))
                          => CursorAt(cursor_controller', x + 1, y)
                     /\ (y < n /\ x = Len(get_row(editor_rows, y)))
                          => CursorAt(cursor_controller', 0, y + 1)
                     /\ y >= n => CursorAt(cursor_controller', x, y)]_vars
    /\ [](LET x == cursor_controller.cursor_x
              y == cursor_controller.cursor_y
              left == move_cursor(cursor_controller, "Left", editor_rows)
              right == move_cursor(cursor_controller, "Right", editor_rows)
          IN  EditKey
              => /\ ~CursorAt(cursor_controller, 0, 0)
                      => CursorAt(move_cursor(left, "Right", editor_rows), x, y)
                 /\ y < number_of_rows(editor_rows)
                      => CursorAt(move_cursor(right, "Left", editor_rows), x, y))

\* C19: Up goes one row up and stays on row 0; Down goes one row down and
\* stays on the virtual row; the column afterwards is the smaller of the column
\* before and the length of the line arrived at (0 on the virtual row); the
\* larger column is not kept, so Down and then Up across a shorter line ends
\* at the shorter line's length.
C19_VerticalMovement ==
    /\ [][LET x == cursor_controller.cursor_x
              y == cursor_controller.cursor_y
              n == number_of_rows(editor_rows)
              y1 == cursor_controller'.cursor_y
          IN  /\ MoveCursor("Up")
                  => /\ y1 = IF y > 0 THEN y - 1 ELSE 0
                     /\ cursor_controller'.cursor_x
                          = Min(x, Len(LineAt(editor_rows, y1)))
              /\ MoveCursor("Down")
                  => /\ y1 = IF y < n THEN y + 1 ELSE n
                     /\ cursor_controller'.cursor_x
                          = Min(x, Len(LineAt(editor_rows, y1)))]_vars
    /\ [](LET x == cursor_controller.cursor_x
              y == cursor_controller.cursor_y
              below == Len(LineAt(editor_rows, y + 1))
              down == move_cursor(cursor_controller, "Down", editor_rows)
              up == move_cursor(down, "Up", editor_rows)
          IN  (EditKey /\ y < number_of_rows(editor_rows) /\ below < x)
              => CursorAt(up, below, y))

\* Down has just taken the cursor from column 2 of a line of two characters
\* to the end of the line of one character below it: render_x is still the
\* one of the column left behind
C19_Witness ==
    /\ pc = "refresh"
    /\ fault = "none"
    /\ mode = "edit"
    /\ number_of_rows(editor_rows) = 2
    /\ get_row(editor_rows, 0) = <<"a", "a">>
    /\ get_row(editor_rows, 1) = <<"a">>
    /\ CursorAt(cursor_controller, 1, 1)
    /\ cursor_controller.render_x = 2

\* C20: PageUp puts the cursor on row row_offset; PageDown puts it on row
\* min(row_offset + screen_rows - 1, number of lines); neither changes the
\* lines, the dirty counter or row_offset.
C20_PageMovement ==
    [][/\ PageUp
            => cursor_controller'.cursor_y = cursor_controller.row_offset
       /\ PageDown
            => cursor_controller'.cursor_y
                 = Min(cursor_controller.row_offset
                         + cursor_controller.screen_rows - 1,
                       number_of_rows(editor_rows))
       /\ (PageUp \/ PageDown)
            => /\ editor_rows' = editor_rows
               /\ dirty' = dirty
               /\ cursor_controller'.row_offset = cursor_controller.row_offset
               /\ fault' = "none"
      ]_vars

\* PageDown has taken the cursor from inside a line to the virtual row, two
\* rows below the top of the window, with its column kept
C20_Witness ==
    /\ pc = "refresh"
    /\ fault = "none"
    /\ mode = "edit"
    /\ number_of_rows(editor_rows) = 1
    /\ cursor_controller.screen_rows = 2
    /\ cursor_controller.row_offset = 0
    /\ cursor_controller.cursor_y = 1
    /\ cursor_controller.cursor_x > 0

---------------------------------------------------------------------------
(* Deleting forward *)

\* The lines of a buffer after the character at column x of line y is removed
WithoutChar(rows, x, y) ==
    [i \in 1..Len(rows) |->
        IF i = y + 1 THEN vec_remove(rows[i].row_content, x)
        ELSE rows[i].row_content]

\* The lines of a buffer after line y + 1 is appended to line y
WithNextJoined(rows, y) ==
    [i \in 1..Len(rows) - 1 |->
        IF i < y + 1 THEN rows[i].row_content
        ELSE IF i = y + 1 THEN rows[i].row_content \o rows[i + 1].row_content
        ELSE rows[i + 1].row_content]

\* C26: Delete removes the character at the cursor, or at the end of a line
\* joins the next line onto it, counts one modification and leaves the cursor
\* where it was; at the end of the last line and on the virtual row past it,
\* buffer, cursor position and dirty counter are unchanged.
C26_DeleteForward ==
    [][DeleteForward =>
         LET x == cursor_controller.cursor_x
             y == cursor_controller.cursor_y
             n == number_of_rows(editor_rows)
         IN  /\ fault' = "none"
             /\ CursorAt(cursor_controller', x, y)
             /\ IF y < n /\ x < CursorRowLen
                THEN /\ Contents(editor_rows') = WithoutChar(editor_rows, x, y)
                     /\ dirty' = dirty + 1
                ELSE IF y + 1 < n
                THEN /\ Contents(editor_rows') = WithNextJoined(editor_rows, y)
                     /\ dirty' = dirty + 1
                ELSE /\ editor_rows' = editor_rows
                     /\ dirty' = dirty
      ]_vars

---------------------------------------------------------------------------
(* Painting *)

\* C27: painting a buffer row never slices outside its rendered text: for any
\* column offset and window width the painted characters are
\* rendered[column_offset .. min(length, column_offset + screen_columns)] when
\* column_offset is less than the rendered length and nothing otherwise, and
\* both ends of the slice lie in 0..length.
C27_PaintInRange ==
    /\ probe.fn # "draw_rows panic"
    /\ probe.fn = "draw_rows" =>
          LET rendered == tab_expansion(probe.content)
              rendered_len == Len(rendered)
          IN  /\ probe.start \in 0..rendered_len
              /\ probe.start + probe.len \in 0..rendered_len
              /\ probe.out_str =
                    IF probe.k < rendered_len
                    THEN SubSeq(rendered, probe.k + 1,
                                Min(rendered_len, probe.k + probe.screen_columns))
                    ELSE <<>>

\* A row with a tab has been painted with the column offset past its end
C27_Witness ==
    /\ probe.fn = "draw_rows"
    /\ probe.content = <<"a", TAB>>
    /\ probe.k > TAB_STOP
    /\ probe.screen_columns = 2
    /\ probe.out_str = <<>>

---------------------------------------------------------------------------
(* Scrolling *)

\* The offset that shows position pos in a window of the given size with the
\* least change from offset
nearest_offset(offset, pos, size) ==
    IF pos < offset THEN pos
    ELSE IF pos >= offset + size THEN pos - size + 1
    ELSE offset

\* C25: a refresh leaves an offset alone when the cursor row (rendered column)
\* is inside the window, and otherwise moves it by the least amount that shows
\* the cursor: to the cursor when it was above or left of the window, to
\* cursor - size + 1 when it was below or right; the cursor itself is not
\* moved, and scrolling once more changes nothing.
C25_MinimalScroll ==
    [][(RefreshScreen /\ fault' = "none") =>
         LET cc == cursor_controller
             after == cursor_controller'
         IN  /\ after.cursor_x = cc.cursor_x
             /\ after.cursor_y = cc.cursor_y
             /\ after.row_offset =
                    nearest_offset(cc.row_offset, cc.cursor_y, cc.screen_rows)
             /\ after.column_offset =
                    nearest_offset(cc.column_offset, after.render_x,
                                   cc.screen_columns)
             /\ scroll(after, editor_rows) = after
      ]_vars

\* After a refresh of a window two columns wide the cursor, at the end of the
\* line "aa", is on the right edge of the window and its row on the top edge
C25_Witness ==
    /\ pc = "key" /\ fault = "none"
    /\ cursor_controller.screen_columns = 2
    /\ cursor_controller.cursor_y = 0
    /\ cursor_controller.row_offset = 0
    /\ cursor_controller.cursor_x = 2
    /\ cursor_controller.render_x = 2
    /\ cursor_controller.column_offset = 1

---------------------------------------------------------------------------
(* Search: scans and matches *)

\* The 0-based rows whose rendered text holds the query
RowsHolding(query) ==
    {j \in 0..Len(editor_rows) - 1 : RowContains(j + 1, query)}

\* After the step both direction flags are clear, and if some row holds the
\* query the match is its first occurrence in the first such row, with the
\* cursor on that row
ScannedFromTop(query) ==
    /\ fault' = "none"
    /\ search_index'.x_direction = "None"
    /\ search_index'.y_direction = "None"
    /\ RowsHolding(query) # {}
        => LET j == CHOOSE j \in RowsHolding(query) :
                        \A k \in RowsHolding(query) : j <= k
           IN  /\ search_index'.y_index = j
               /\ search_index'.x_index = str_find(editor_rows[j + 1].render, query)
               /\ cursor_controller'.cursor_y = j

\* C22: a typed character or a Backspace in a search session clears both
\* direction flags and scans from the top: the match is the first occurrence
\* of the query in the first row whose rendered text holds it, wherever the
\* previous match was.
C22_AbsoluteScan ==
    [][/\ \A ch \in QueryChars : FindChar(ch) => ScannedFromTop(Append(input, ch))
       /\ FindBackspace => ScannedFromTop(SubSeq(input, 1, Len(input) - 1))
      ]_vars

\* A scan without direction has passed over row 0, which does not hold the
\* query, and stopped at the first of two occurrences in row 1
C22_Witness ==
    /\ mode = "find"
    /\ fault = "none"
    /\ pc = "refresh"
    /\ input # <<>>
    /\ search_index.x_direction = "None"
    /\ search_index.y_direction = "None"
    /\ number_of_rows(editor_rows) = 2
    /\ ~RowContains(1, input)
    /\ OccursAt(editor_rows[2].render, input, 0)
    /\ OccursAt(editor_rows[2].render, input, 1)
    /\ search_index.y_index = 1
    /\ search_index.x_index = 0
    /\ cursor_controller.cursor_y = 1

\* The rendered text of the current match row
MatchRender == editor_rows[search_index.y_index + 1].render

\* Offsets of the occurrences of the query in the current match row that
\* start after the match column, and of those that end at or before it
HitsRight == {p \in 0..Len(MatchRender) :
                p > search_index.x_index /\ OccursAt(MatchRender, input, p)}
HitsLeft == {p \in 0..Len(MatchRender) :
                p + Len(input) <= search_index.x_index
                /\ OccursAt(MatchRender, input, p)}

\* After the step the match is at offset p of the row it was on
MatchSteppedTo(p) ==
    /\ search_index'.y_index = search_index.y_index
    /\ search_index'.x_index = p
    /\ cursor_controller'.cursor_y = search_index.y_index

\* C23: in a search session with a current match, Right moves the match to
\* the first occurrence of the query that starts after the match column in the
\* same row, and Left to the last occurrence that lies before it; when the row
\* has no such occurrence, no other row is searched and neither the match nor
\* the cursor moves.
C23_ColumnStepping ==
    [][/\ (FindArrow("Right") /\ CurrentMatch)
            => /\ fault' = "none"
               /\ IF HitsRight # {}
                  THEN MatchSteppedTo(CHOOSE p \in HitsRight :
                                         \A q \in HitsRight : p <= q)
                  ELSE MatchUnmoved
       /\ (FindArrow("Left") /\ CurrentMatch)
            => /\ fault' = "none"
               /\ IF HitsLeft # {}
                  THEN MatchSteppedTo(CHOOSE p \in HitsLeft :
                                         \A q \in HitsLeft : p >= q)
                  ELSE MatchUnmoved
      ]_vars

\* A Left step has just moved the match from offset 2 to offset 1 of a row of
\* blanks, passing over the occurrence at offset 0
C23_Witness ==
    /\ mode = "find" /\ fault = "none" /\ pc = "refresh"
    /\ input = <<SPACE>>
    /\ search_index.x_direction = "Backward"
    /\ search_index.y_direction = "None"
    /\ search_index.x_index = 1
    /\ search_index.y_index < number_of_rows(editor_rows)
    /\ OccursAt(MatchRender, input, 0)
    /\ OccursAt(MatchRender, input, 2)
    /\ cursor_controller.cursor_y = search_index.y_index

\* Column x of the row is where a match at rendered offset c puts the cursor:
\* the character whose rendered text covers c, the end of the line when c is
\* the rendered length
CursorOnMatch(row, x, c) ==
    IF c >= Len(row.render) THEN x = Len(row.row_content)
    ELSE ColumnCovers(row, x, c)

\* After the step the match is recorded at offset c of row r, the cursor is on
\* it, and the next scroll shows row r
LandedOn(c, r) ==
    LET after == scroll(cursor_controller', editor_rows)
    IN  /\ fault' = "none"
        /\ search_index'.x_index = c
        /\ search_index'.y_index = r
        /\ cursor_controller'.cursor_y = r
        /\ CursorOnMatch(editor_rows[r + 1], cursor_controller'.cursor_x, c)
        /\ after.row_offset <= r
        /\ r < after.row_offset + after.screen_rows

\* After the step the match is at the first occurrence of the query in row r
LandedOnRow(r, query) == LandedOn(str_find(editor_rows[r + 1].render, query), r)

\* After a scan without direction the match is in the first row holding query
LandedOnFirst(query) ==
    RowsHolding(query) # {}
        => LandedOnRow(CHOOSE j \in RowsHolding(query) :
                           \A k \in RowsHolding(query) : j <= k, query)

\* C24: a search keystroke that matches at rendered offset c of row r puts the
\* cursor on row r at the column of the character whose rendered text covers c,
\* records (c, r) as the match position, and leaves the offsets such that the
\* next scroll shows row r.
C24_MatchEffects ==
    [][/\ \A ch \in QueryChars : FindChar(ch) => LandedOnFirst(Append(input, ch))
       /\ FindBackspace => LandedOnFirst(SubSeq(input, 1, Len(input) - 1))
       /\ (FindArrow("Down") /\ CurrentMatch /\ RowsBelow # {})
            => LandedOnRow(CHOOSE j \in RowsBelow : \A k \in RowsBelow : j <= k,
                           input)
       /\ (FindArrow("Up") /\ CurrentMatch /\ RowsAbove # {})
            => LandedOnRow(CHOOSE j \in RowsAbove : \A k \in RowsAbove : j >= k,
                           input)
       /\ (FindArrow("Right") /\ CurrentMatch /\ HitsRight # {})
            => LandedOn(CHOOSE p \in HitsRight : \A q \in HitsRight : p <= q,
                        search_index.y_index)
       /\ (FindArrow("Left") /\ CurrentMatch /\ HitsLeft # {})
            => LandedOn(CHOOSE p \in HitsLeft : \A q \in HitsLeft : p >= q,
                        search_index.y_index)
      ]_vars

---------------------------------------------------------------------------
(* Key bindings *)

\* C21: Ctrl+F pressed in the idle editor starts a search session: the editor
\* is in the search prompt afterwards, with the cursor controller copied.
C21_CtrlFStartsSearch ==
    [][ControlKey("f")
       => /\ mode' = "find"
          /\ saved_cursor' = cursor_controller]_vars

---------------------------------------------------------------------------
(* Key sequences *)

\* C11: when a character (Tab included) has been inserted and Backspace is the
\* very next key, the line the cursor was on has its content from before the
\* insertion again, the cursor is back in its column on that line, and no
\* fault is raised.
C11_InsertThenBackspace ==
    [][\A ch \in BufferChars :
          KeyAfterKey(ch, "Backspace")
          => /\ fault' = "none"
             /\ LineAt(editor_rows', probe.cc.cursor_y)
                   = LineAt(probe.rows, probe.cc.cursor_y)
             /\ cursor_controller'.cursor_x = probe.cc.cursor_x
             /\ cursor_controller'.cursor_y = probe.cc.cursor_y]_vars

\* A Tab was inserted into a non-empty line and Backspace came next
C11_Witness ==
    /\ probe.fn = "key"
    /\ probe.before = TAB
    /\ probe.key = "Backspace"
    /\ fault = "none"
    /\ probe.cc.cursor_y < number_of_rows(probe.rows)
    /\ Len(get_row(probe.rows, probe.cc.cursor_y)) >= 2
    /\ probe.cc.cursor_x = 1

\* C12: when Enter has been pressed and Backspace is the very next key, the
\* buffer has the lines it had before Enter (same count, same contents), the
\* cursor is back at the split point, and no fault is raised.
C12_NewlineThenBackspace ==
    [][KeyAfterKey("Enter", "Backspace")
       => /\ fault' = "none"
          /\ Contents(editor_rows') = Contents(probe.rows)
          /\ cursor_controller'.cursor_x = probe.cc.cursor_x
          /\ cursor_controller'.cursor_y = probe.cc.cursor_y]_vars
====
